---- MODULE Spec2Model ----
(***************************************************************************)
(* The build runner scripts/build.py as a state machine.                   *)
(*                                                                         *)
(* One process of the script is a straight line of statements: read the    *)
(* working directory, leave a directory named 'scripts', announce the      *)
(* command, run `pnpm build` with captured output, relay the output and    *)
(* exit.  Every statement of the try block (lines 25-35) is a step that    *)
(* either completes or raises; an exception (but not SystemExit) goes to   *)
(* the handler of lines 37-39.  The statements outside the try block       *)
(* (lines 7-23, and the handler's own print) are taken to complete.        *)
(*                                                                         *)
(* The environment (the directory the shell starts the script in, whether  *)
(* pnpm can be started, what the build does in a given working directory,  *)
(* which print of the try block fails) is chosen once and stays the same   *)
(* over the successive runs of the script.  The exit status of a process   *)
(* is the one its sys.exit call, or the end of the module, gives it.       *)
(***************************************************************************)
EXTENDS Integers, Sequences, FiniteSets, TLC

(* ------------------------------ bounds -------------------------------- *)

\* longest directory path, in segments
MaxDepth == 2
\* successive runs of the script from the same shell
MaxRuns == 2
\* largest exit code of the build command
MaxRc == 2
\* largest signal number that kills the build command
MaxSig == 1

(* ------------------------------ paths --------------------------------- *)

\* directory names: the convention name of line 11 and one other name
Segments == {"scripts", "app"}

\* absolute directories, as the sequence of their segments (<<>> is "/")
Dirs == UNION {[1..n -> Segments] : n \in 0..MaxDepth}

\* os.path.basename of a path os.getcwd() returned (no trailing slash)
Basename(path) == IF path = <<>> THEN "" ELSE path[Len(path)]

\* the directory os.chdir('..') leads to ("/" is its own parent)
Parent(path) == IF path = <<>> THEN <<>> ELSE SubSeq(path, 1, Len(path) - 1)

\* the path as os.getcwd() returns it and the f-strings of lines 8, 14 print it
RECURSIVE PathStr(_)
PathStr(path) ==
    IF path = <<>> THEN "/"
    ELSE IF Len(path) = 1 THEN "/" \o path[1]
    ELSE PathStr(Parent(path)) \o "/" \o path[Len(path)]

\* path and the directories above it
RECURSIVE Ancestors(_)
Ancestors(path) ==
    IF path = <<>> THEN {<<>>} ELSE {path} \cup Ancestors(Parent(path))

(* ------------------------- text conversions --------------------------- *)

Digits == <<"0", "1", "2", "3", "4", "5", "6", "7", "8", "9">>

RECURSIVE NatStr(_)
NatStr(n) == IF n < 10 THEN Digits[n + 1] ELSE NatStr(n \div 10) \o Digits[(n % 10) + 1]

\* str(int), as the f-string of line 32 formats result.returncode
IntStr(n) == IF n < 0 THEN "-" \o NatStr(0 - n) ELSE NatStr(n)

\* ' '.join(build_cmd) of line 23 for build_cmd of lines 17-20
BuildCmdStr == "pnpm" \o " " \o "build"

\* the status the parent of a process sees after sys.exit(code): the low 8 bits
ExitStatus(code) == code % 256

(* ---------------------------- environment ----------------------------- *)

\* subprocess returncode: the exit code, or -s for a child killed by signal s
ReturnCodes == (0 - MaxSig)..MaxRc

StdoutTexts == {"", "out"}
StderrTexts == {"", "err"}

\* what one run of the build command does: it completes with output that
\* decodes as text, or completes with output that does not (its stdout then
\* stands for the undecodable bytes; stderr tells whether it wrote errors)
Completions ==
    [kind : {"completed"}, returncode : ReturnCodes,
     stdout : StdoutTexts, stderr : StderrTexts]
    \cup
    [kind : {"undecodable"}, returncode : ReturnCodes,
     stdout : {""}, stderr : StderrTexts]

\* what the build command does outside the project root
ElsewhereCompletions ==
    {[kind |-> "completed", returncode |-> 1, stdout |-> "", stderr |-> "err"],
     [kind |-> "completed", returncode |-> 0, stdout |-> "out", stderr |-> ""]}

\* the print call of the try block that raises, if any (a closed pipe, a text
\* the stream cannot encode): line 27, line 29, line 32 or line 35
PrintFaults == {"none", "stdout", "stderr", "failed", "success"}

NoBuild == [kind |-> "completed", returncode |-> 0, stdout |-> "", stderr |-> ""]

Environments ==
    [startDir : Dirs, launchable : {TRUE}, rootDir : Dirs,
     atRoot : Completions, elsewhere : ElsewhereCompletions,
     printFault : PrintFaults]
    \cup
    [startDir : Dirs, launchable : {FALSE}, rootDir : {<<>>},
     atRoot : {NoBuild}, elsewhere : {NoBuild}, printFault : {"none"}]

(* ------------------------------ state --------------------------------- *)

VARIABLES
    env,          \* the environment of all runs
    run,          \* which run of the script this is
    history,      \* exit statuses of the finished earlier runs, as the shell saw them
    pc,           \* the statement the process is at
    cwd,          \* the process's working directory
    current_dir,  \* line 7
    child,        \* the child process of line 26
    invocations,  \* calls of subprocess.run by this process
    result,       \* line 26
    exc,          \* the exception being raised
    log,          \* the print calls that completed, in order
    exit_status   \* the status the process ended with, -1 while it runs

vars == <<env, run, history, pc, cwd, current_dir, child, invocations,
          result, exc, log, exit_status>>

NoChild == [state |-> "none", cwd |-> <<>>, returncode |-> 0]
Unset == [kind |-> "unset", returncode |-> 0, stdout |-> "", stderr |-> ""]
NoExc == [type |-> "", msg |-> ""]

\* one completed print call: the stream, the fixed text and the interpolated text
Line(stream, fmt, arg) == [stream |-> stream, fmt |-> fmt, arg |-> arg]

\* variant: the working directory the previous run changed to is kept
ProcessStart_KeepsCwd ==
    /\ pc' = "getcwd"
    /\ cwd' = cwd
    /\ current_dir' = <<>>
    /\ child' = NoChild
    /\ invocations' = 0
    /\ result' = Unset
    /\ exc' = NoExc
    /\ log' = <<>>
    /\ exit_status' = -1

\* a fresh process of the script, started in the shell's directory
ProcessStart ==
    /\ pc' = "getcwd"
    /\ cwd' = env.startDir
    /\ current_dir' = <<>>
    /\ child' = NoChild
    /\ invocations' = 0
    /\ result' = Unset
    /\ exc' = NoExc
    /\ log' = <<>>
    /\ exit_status' = -1

Init ==
    /\ env \in Environments
    /\ env.rootDir \in Ancestors(env.startDir)
    /\ run = 1
    /\ history = <<>>
    /\ pc = "getcwd"
    /\ cwd = env.startDir
    /\ current_dir = <<>>
    /\ child = NoChild
    /\ invocations = 0
    /\ result = Unset
    /\ exc = NoExc
    /\ log = <<>>
    /\ exit_status = -1

(* ------------------------ the printed messages ------------------------- *)

\* line 8
MsgCurrentDir == "[v0] Current working directory: "
\* line 14
MsgWorkingDir == "[v0] Working directory: "
\* line 22
MsgStarting == "[v0] Starting TypeScript build process..."
\* line 23
MsgRunning == "[v0] Running: "
\* line 27: the captured output is printed as it is
MsgChildStdout == ""
\* line 29: print joins its two arguments with a space
MsgChildStderr == "STDERR:" \o " "
\* line 32
MsgBuildFailed == "[v0] Build failed with return code: "
\* line 35
MsgBuildOk == "[v0] Build completed successfully!"
\* line 38
MsgError == "[v0] Error running build: "

(* ----------------------------- statements ------------------------------ *)

Printed(line) == log' = Append(log, line)

\* sys.exit(code), and the end of the module for code 0
Exit(code) ==
    /\ pc' = "exited"
    /\ exit_status' = ExitStatus(code)

\* raise e inside the try block: control goes to the handler of line 37
Raise(type, msg) ==
    /\ exc' = [type |-> type, msg |-> msg]
    /\ pc' = "except"

\* what the build command does when run in directory dir
BuildAt(dir) == IF dir = env.rootDir THEN env.atRoot ELSE env.elsewhere

\* lines 7-8
GetCwd ==
    /\ pc = "getcwd"
    /\ current_dir' = cwd
    /\ Printed(Line("stdout", MsgCurrentDir, PathStr(cwd)))
    /\ pc' = "chdir"
    /\ UNCHANGED <<env, run, history, cwd, child, invocations, result, exc, exit_status>>

\* variant: the test of line 11 is lost and line 12 always runs
ChangeDir_Always ==
    /\ pc = "chdir"
    /\ cwd' = Parent(cwd)
    /\ Printed(Line("stdout", MsgWorkingDir, PathStr(cwd')))
    /\ pc' = "announce"
    /\ UNCHANGED <<env, run, history, current_dir, child, invocations, result, exc,
                   exit_status>>

\* lines 11-14
ChangeDir ==
    /\ pc = "chdir"
    /\ cwd' = IF Basename(current_dir) = "scripts" THEN Parent(cwd) ELSE cwd
    /\ Printed(Line("stdout", MsgWorkingDir, PathStr(cwd')))
    /\ pc' = "announce"
    /\ UNCHANGED <<env, run, history, current_dir, child, invocations, result, exc,
                   exit_status>>

\* lines 17-23
Announce ==
    /\ pc = "announce"
    /\ log' = log \o <<Line("stdout", MsgStarting, ""),
                       Line("stdout", MsgRunning, BuildCmdStr)>>
    /\ pc' = "spawn"
    /\ UNCHANGED <<env, run, history, cwd, current_dir, child, invocations, result, exc,
                   exit_status>>

\* line 26, subprocess.run starting the child: the child inherits the working
\* directory; a command that cannot be started raises
SpawnChild ==
    /\ pc = "spawn"
    /\ invocations' = invocations + 1
    /\ IF env.launchable
       THEN /\ child' = [state |-> "running", cwd |-> cwd, returncode |-> 0]
            /\ pc' = "wait"
            /\ exc' = exc
       ELSE /\ child' = child
            /\ Raise("FileNotFoundError", "[Errno 2] No such file or directory: 'pnpm'")
    /\ UNCHANGED <<env, run, history, cwd, current_dir, result, log, exit_status>>

\* line 26, subprocess.run waiting for the child and decoding what it captured
WaitChild ==
    /\ pc = "wait"
    /\ LET done == BuildAt(child.cwd) IN
       /\ child' = [child EXCEPT !.state = "done", !.returncode = done.returncode]
       /\ IF done.kind = "undecodable"
          THEN /\ Raise("UnicodeDecodeError", "'utf-8' codec can't decode byte")
               /\ result' = result
          ELSE /\ result' = done
               /\ pc' = "relay_stdout"
               /\ exc' = exc
    /\ UNCHANGED <<env, run, history, cwd, current_dir, invocations, log, exit_status>>

\* variant: line 27 prints an empty line instead of the captured output
RelayStdout_DropsOutput ==
    /\ pc = "relay_stdout"
    /\ IF env.printFault = "stdout"
       THEN /\ Raise("BrokenPipeError", "[Errno 32] Broken pipe")
            /\ log' = log
       ELSE /\ Printed(Line("stdout", MsgChildStdout, ""))
            /\ pc' = "relay_stderr"
            /\ exc' = exc
    /\ UNCHANGED <<env, run, history, cwd, current_dir, child, invocations, result,
                   exit_status>>

\* variant: lines 28-29 come before line 27
RelayStdout_AfterStderr ==
    /\ pc = "relay_stdout"
    /\ log' = log \o (IF result.stderr # ""
                      THEN <<Line("stderr", MsgChildStderr, result.stderr)>>
                      ELSE <<>>)
                  \o <<Line("stdout", MsgChildStdout, result.stdout)>>
    /\ pc' = "check_rc"
    /\ UNCHANGED <<env, run, history, cwd, current_dir, child, invocations, result,
                   exc, exit_status>>

\* line 27
RelayStdout ==
    /\ pc = "relay_stdout"
    /\ IF env.printFault = "stdout"
       THEN /\ Raise("BrokenPipeError", "[Errno 32] Broken pipe")
            /\ log' = log
       ELSE /\ Printed(Line("stdout", MsgChildStdout, result.stdout))
            /\ pc' = "relay_stderr"
            /\ exc' = exc
    /\ UNCHANGED <<env, run, history, cwd, current_dir, child, invocations, result,
                   exit_status>>

\* variant: line 29 without file=sys.stderr
RelayStderr_ToStdout ==
    /\ pc = "relay_stderr"
    /\ IF result.stderr # "" /\ env.printFault = "stdout"
       THEN /\ Raise("BrokenPipeError", "[Errno 32] Broken pipe")
            /\ log' = log
       ELSE /\ log' = IF result.stderr # ""
                      THEN Append(log, Line("stdout", MsgChildStderr, result.stderr))
                      ELSE log
            /\ pc' = "check_rc"
            /\ exc' = exc
    /\ UNCHANGED <<env, run, history, cwd, current_dir, child, invocations, result,
                   exit_status>>

\* lines 28-29
RelayStderr ==
    /\ pc = "relay_stderr"
    /\ IF result.stderr # "" /\ env.printFault = "stderr"
       THEN /\ Raise("BrokenPipeError", "[Errno 32] Broken pipe")
            /\ log' = log
       ELSE /\ log' = IF result.stderr # ""
                      THEN Append(log, Line("stderr", MsgChildStderr, result.stderr))
                      ELSE log
            /\ pc' = "check_rc"
            /\ exc' = exc
    /\ UNCHANGED <<env, run, history, cwd, current_dir, child, invocations, result,
                   exit_status>>

\* variant: line 33 exits with 1 instead of the child's code
CheckReturnCode_ExitsOne ==
    /\ pc = "check_rc"
    /\ IF result.returncode # 0
       THEN IF env.printFault = "failed"
            THEN /\ Raise("BrokenPipeError", "[Errno 32] Broken pipe")
                 /\ log' = log
                 /\ exit_status' = exit_status
            ELSE /\ Printed(Line("stdout", MsgBuildFailed, IntStr(result.returncode)))
                 /\ Exit(1)
                 /\ exc' = exc
       ELSE /\ log' = log
            /\ pc' = "success"
            /\ exit_status' = exit_status
            /\ exc' = exc
    /\ UNCHANGED <<env, run, history, cwd, current_dir, child, invocations, result>>

\* variant: the handler of line 37 catches the SystemExit of line 33
CheckReturnCode_ExitCaught ==
    /\ pc = "check_rc"
    /\ IF result.returncode # 0
       THEN IF env.printFault = "failed"
            THEN /\ Raise("BrokenPipeError", "[Errno 32] Broken pipe")
                 /\ log' = log
                 /\ exit_status' = exit_status
            ELSE /\ Printed(Line("stdout", MsgBuildFailed, IntStr(result.returncode)))
                 /\ Raise("SystemExit", IntStr(result.returncode))
                 /\ exit_status' = exit_status
       ELSE /\ log' = log
            /\ pc' = "success"
            /\ exit_status' = exit_status
            /\ exc' = exc
    /\ UNCHANGED <<env, run, history, cwd, current_dir, child, invocations, result>>

\* lines 31-33: SystemExit is no Exception, so line 37 does not catch it
CheckReturnCode ==
    /\ pc = "check_rc"
    /\ IF result.returncode # 0
       THEN IF env.printFault = "failed"
            THEN /\ Raise("BrokenPipeError", "[Errno 32] Broken pipe")
                 /\ log' = log
                 /\ exit_status' = exit_status
            ELSE /\ Printed(Line("stdout", MsgBuildFailed, IntStr(result.returncode)))
                 /\ Exit(result.returncode)
                 /\ exc' = exc
       ELSE /\ log' = log
            /\ pc' = "success"
            /\ exit_status' = exit_status
            /\ exc' = exc
    /\ UNCHANGED <<env, run, history, cwd, current_dir, child, invocations, result>>

\* line 35 and the end of the module
ReportSuccess ==
    /\ pc = "success"
    /\ IF env.printFault = "success"
       THEN /\ Raise("BrokenPipeError", "[Errno 32] Broken pipe")
            /\ log' = log
            /\ exit_status' = exit_status
       ELSE /\ Printed(Line("stdout", MsgBuildOk, ""))
            /\ Exit(0)
            /\ exc' = exc
    /\ UNCHANGED <<env, run, history, cwd, current_dir, child, invocations, result>>

\* variant: line 38 without the exception text
HandleException_NoMessage ==
    /\ pc = "except"
    /\ Printed(Line("stderr", MsgError, ""))
    /\ Exit(1)
    /\ UNCHANGED <<env, run, history, cwd, current_dir, child, invocations, result, exc>>

\* variant: the handler runs the build again instead of exiting
HandleException_Retries ==
    /\ pc = "except"
    /\ Printed(Line("stderr", MsgError, exc.msg))
    /\ pc' = "spawn"
    /\ exc' = NoExc
    /\ UNCHANGED <<env, run, history, cwd, current_dir, child, invocations, result,
                   exit_status>>

\* variant: the handler reports the error and lets the module end normally
HandleException_ExitsZero ==
    /\ pc = "except"
    /\ Printed(Line("stderr", MsgError, exc.msg))
    /\ Exit(0)
    /\ UNCHANGED <<env, run, history, cwd, current_dir, child, invocations, result, exc>>

\* lines 37-39
HandleException ==
    /\ pc = "except"
    /\ Printed(Line("stderr", MsgError, exc.msg))
    /\ Exit(1)
    /\ UNCHANGED <<env, run, history, cwd, current_dir, child, invocations, result, exc>>

\* the shell runs the script again, in the directory it ran it in before
NextRun ==
    /\ pc = "exited"
    /\ run < MaxRuns
    /\ run' = run + 1
    /\ history' = Append(history, exit_status)
    /\ ProcessStart
    /\ UNCHANGED env

Next ==
    \/ GetCwd
    \/ ChangeDir
    \/ Announce
    \/ SpawnChild
    \/ WaitChild
    \/ RelayStdout
    \/ RelayStderr
    \/ CheckReturnCode
    \/ ReportSuccess
    \/ HandleException
    \/ NextRun

Spec == Init /\ [][Next]_vars

(* ------------------------------ properties ----------------------------- *)

Terminated == pc = "exited"

\* the build command was started and has finished
ChildFinished == child.state = "done"

\* what the child that ran did
ChildDid == BuildAt(child.cwd)

\* an exception was raised inside the try block
Raised == exc # NoExc

\* the positions of the log that hold a line with the fixed text fmt
At(fmt) == {i \in 1..Len(log) : log[i].fmt = fmt}

OutcomeMsgs == {MsgBuildOk, MsgBuildFailed, MsgError}

\* C1 as stated: whenever the build command was launched and finished with a
\* return code N other than 0, the runner terminates with exit code exactly N.
C1_Original ==
    (Terminated /\ ChildFinished /\ child.returncode # 0)
        => exit_status = child.returncode

\* C1 amended: when the build command finished with return code N other than 0
\* and nothing raised in the try block, the runner prints
\* the failure diagnostic with N and exits with N: status N for a positive N,
\* N + 256 for a child killed by a signal (negative N).  When decoding the
\* output or one of the prints raised, the runner exits 1 instead.
C1_ExitCodePropagated ==
    (Terminated /\ ChildFinished /\ child.returncode # 0) =>
        IF Raised
        THEN exit_status = 1
        ELSE /\ child.returncode > 0 => exit_status = child.returncode
             /\ child.returncode < 0 => exit_status = child.returncode + 256
             /\ log[Len(log)] = Line("stdout", MsgBuildFailed, IntStr(child.returncode))

C1_Witness ==
    /\ Terminated /\ ChildFinished /\ ~Raised
    /\ child.returncode > 1
    /\ exit_status = child.returncode

\* C2 as stated: whenever the build command was launched and returned 0, the
\* runner terminates with exit code 0, having printed the child's captured
\* standard output and then the success diagnostic.
C2_Original ==
    (Terminated /\ ChildFinished /\ child.returncode = 0) =>
        /\ exit_status = 0
        /\ \E i \in At(MsgChildStdout) :
              /\ log[i] = Line("stdout", MsgChildStdout, ChildDid.stdout)
              /\ \E j \in At(MsgBuildOk) : i < j

\* C2 amended: when the build command returned 0 and nothing raised in the try
\* block, the runner exits 0, having printed the child's captured standard
\* output and then, last, the success diagnostic.  When decoding the output or
\* one of the prints raised, the runner exits 1 without the success diagnostic.
C2_SuccessReported ==
    (Terminated /\ ChildFinished /\ child.returncode = 0) =>
        IF Raised
        THEN exit_status = 1 /\ At(MsgBuildOk) = {}
        ELSE /\ exit_status = 0
             /\ \E i \in At(MsgChildStdout) :
                   /\ log[i] = Line("stdout", MsgChildStdout, ChildDid.stdout)
                   /\ i < Len(log)
             /\ log[Len(log)] = Line("stdout", MsgBuildOk, "")

C2_Witness ==
    /\ Terminated /\ ChildFinished /\ ~Raised
    /\ child.returncode = 0
    /\ ChildDid.stdout = "out"
    /\ exit_status = 0

\* C3: when the build command cannot be launched, the runner catches the
\* failure, prints a diagnostic that carries the launch error's message, and
\* exits 1; it prints no child output and no success diagnostic.
C3_LaunchFailure ==
    (Terminated /\ invocations > 0 /\ child.state = "none") =>
        /\ exit_status = 1
        /\ exc.type = "FileNotFoundError"
        /\ exc.msg # ""
        /\ log[Len(log)] = Line("stderr", MsgError, exc.msg)
        /\ At(MsgChildStdout) = {}
        /\ At(MsgChildStderr) = {}
        /\ At(MsgBuildOk) = {}

C3_Witness ==
    /\ Terminated /\ ~env.launchable
    /\ invocations = 1
    /\ exit_status = 1

\* the child's standard error was written, labelled, to the error stream
StderrRelayed ==
    \E i \in 1..Len(log) : log[i] = Line("stderr", MsgChildStderr, ChildDid.stderr)

\* C4 as stated: whenever the child completes, its standard error, if not
\* empty, is written to the error stream with the label STDERR:, and no
\* labelled output is written if it is empty.
C4_Original ==
    (Terminated /\ ChildFinished) =>
        /\ ChildDid.stderr # "" => StderrRelayed
        /\ ChildDid.stderr = "" => At(MsgChildStderr) = {}

\* C4 amended: when the child completes, its standard error is written, with
\* the label STDERR:, exactly when it is not empty and nothing raised up to and
\* in that write (decoding the output, printing the standard output, printing
\* the standard error itself); a labelled line is only ever written to the
\* error stream and only with the child's non-empty standard error.
C4_StderrRelayed ==
    (Terminated /\ ChildFinished) =>
        /\ StderrRelayed <=>
              (ChildDid.stderr # "" /\ ChildDid.kind = "completed"
                  /\ env.printFault \notin {"stdout", "stderr"})
        /\ \A i \in At(MsgChildStderr) :
              /\ log[i].stream = "stderr"
              /\ log[i].arg = ChildDid.stderr
              /\ log[i].arg # ""

C4_Witness ==
    /\ Terminated /\ ChildFinished
    /\ ChildDid.stderr = "err"
    /\ child.returncode # 0
    /\ StderrRelayed

\* the directory line 11-12 must lead to from directory start
Resolved(start) ==
    IF Len(start) > 0 /\ start[Len(start)] = "scripts"
    THEN SubSeq(start, 1, Len(start) - 1)
    ELSE start

\* C5: the working directory in effect when the build command is invoked is
\* the parent of the starting directory when that directory's last segment is
\* 'scripts', and the starting directory itself otherwise.
C5_WorkingDirectory ==
    /\ invocations > 0 => cwd = Resolved(env.startDir)
    /\ child.state # "none" => child.cwd = Resolved(env.startDir)

C5_Witness ==
    /\ ChildFinished
    /\ env.startDir = <<"app", "scripts">>
    /\ child.cwd = <<"app">>

\* C6: a run invokes the build command exactly once: never more than once,
\* once by the time it terminates, and not again after a failure.
C6_SingleInvocation ==
    /\ invocations <= 1
    /\ Terminated => invocations = 1
    /\ Raised => invocations = 1

C6_Witness ==
    /\ Terminated
    /\ exit_status # 0
    /\ invocations = 1

Rank(fmt) ==
    CASE fmt = MsgCurrentDir -> 1
      [] fmt = MsgWorkingDir -> 2
      [] fmt = MsgStarting -> 3
      [] fmt = MsgRunning -> 4
      [] fmt = MsgChildStdout -> 5
      [] fmt = MsgChildStderr -> 6
      [] fmt \in OutcomeMsgs -> 7

\* C8: within a run the working directory is resolved before the build
\* command is invoked; nothing of the child's output is relayed before the
\* child has completed; then come the captured standard output, the labelled
\* standard error if any, the outcome diagnostic, and only then the exit.
C8_Ordering ==
    /\ \A i, j \in 1..Len(log) : i < j => Rank(log[i].fmt) < Rank(log[j].fmt)
    /\ invocations > 0 =>
          \E i \in At(MsgWorkingDir) : log[i].arg = PathStr(cwd)
    /\ ~ChildFinished => At(MsgChildStdout) \cup At(MsgChildStderr) = {}
    /\ Terminated <=> (\E i \in 1..Len(log) : log[i].fmt \in OutcomeMsgs)
    /\ At(MsgChildStderr) # {} => At(MsgChildStdout) # {}

C8_Witness ==
    /\ Terminated
    /\ Len(log) = 7
    /\ log[5].fmt = MsgChildStdout
    /\ log[6].fmt = MsgChildStderr
    /\ log[7].fmt = MsgBuildFailed

\* C9 as stated: a run that terminates exits 0 if and only if the build
\* command was launched and returned 0.
C9_Original ==
    Terminated => (exit_status = 0 <=> (ChildFinished /\ child.returncode = 0))

\* C9 amended: a run that terminates exits 0 exactly when the build command was
\* launched, returned 0 and nothing raised in the try block; a non-zero return
\* code, a launch failure and any exception raised in the try block (a failed
\* write of the relayed output among them) all end in a non-zero exit code.
C9_ZeroIffSuccess ==
    Terminated =>
        /\ exit_status = 0 <=> (ChildFinished /\ child.returncode = 0 /\ ~Raised)
        /\ Raised => exit_status # 0
        /\ exit_status \in 0..255

C9_Witness ==
    /\ Terminated
    /\ ChildFinished /\ child.returncode = 0
    /\ exc.type = "BrokenPipeError"
    /\ exit_status = 1

====
